---- MODULE Spec2Model ----
(***************************************************************************)
(* A model of lib/python/get_user_threads.py: the thread reconstruction    *)
(* script of birdseye.  The script is one synchronous batch run: it loads  *)
(* a flat tweet dataset and two reply-tree forests, merges the forests,    *)
(* selects the longest reply chain of every tree, fuses the attributes of  *)
(* every tweet on it, aggregates one thread per tree, sorts the threads    *)
(* and prints one JSON object.                                             *)
(*                                                                         *)
(* Python values are records [t, n, e, s]:                                 *)
(*   t  the kind: "none", "bool", "int", "float" (finite), "nan", "inf",   *)
(*      "str", "timestamp" (pandas.Timestamp), "other" (list, dict, any    *)
(*      other object), "exc" (a raised exception, s holds its name)        *)
(*   n  the integer, 0/1 of a bool, the mantissa of a finite float, the    *)
(*      sign (1 / -1) of an infinite float                                 *)
(*   e  the number of decimal places of a finite float: its value is       *)
(*      n / 10^e, with n not a multiple of 10 unless e = 0                 *)
(*   s  the characters of a str (a sequence of one-character strings),     *)
(*      the isoformat() text of a timestamp, the name of an exception      *)
(* Finite floats are short decimals (1e-4 <= |v| < 1e16, or 0), for which  *)
(* repr() prints the decimal digits; text with an exponent or with         *)
(* underscores is outside the sample alphabets.                            *)
(* A Python dict is the sequence of its <<key, value>> items in insertion  *)
(* order.                                                                  *)
(***************************************************************************)
EXTENDS Integers, Sequences, FiniteSets, TLC

VARIABLES
    co_arg,            \* coercion harness: the raw value passed in
    co_fn,             \* coercion harness: the function applied ("" before the call)
    co_ret,            \* coercion harness: what the call returned or raised
    ps_pc,             \* path selection of one tree: the position in the code
    ps_root,           \* root_id of the tree
    ps_paths,          \* tree.get("paths"), raw
    ps_children,       \* tree.get("children"), raw
    children_map,      \* the normalized children relation
    normalized_paths,  \* the normalized precomputed paths
    stack,             \* pick_longest_path: the stack of partial paths
    best_path,         \* pick_longest_path: the longest path found so far
    longest_path,      \* the path selected for the tree
    pc,                \* the script: the position in the code
    env,               \* the process environment: pandas importable, the user
                       \* directory <root>/<user> present
    files,             \* the user directory: the dataset and the two forest files
    tweets_df,         \* the rows read from the dataset
    tweet_lookup,      \* tweet id -> canonical record
    trees_data,        \* the complete forest as loaded
    incomplete_data,   \* the incomplete forest as loaded
    combined_roots,    \* root id -> (tree, is_incomplete), merged
    tree_index,        \* the loop over combined_roots: the next item
    threads,           \* the threads built so far
    stdout             \* the JSON objects printed

co_vars == <<co_arg, co_fn, co_ret>>

ps_vars == <<ps_pc, ps_root, ps_paths, ps_children, children_map,
             normalized_paths, stack, best_path, longest_path>>

run_vars == <<pc, env, files, tweets_df, tweet_lookup, trees_data, incomplete_data,
              combined_roots, tree_index, threads, stdout>>

vars == <<co_arg, co_fn, co_ret, ps_pc, ps_root, ps_paths, ps_children,
          children_map, normalized_paths, stack, best_path, longest_path,
          pc, env, files, tweets_df, tweet_lookup, trees_data, incomplete_data,
          combined_roots, tree_index, threads, stdout>>

----------------------------------------------------------------------------
(* Bounds of the model *)

\* longest raw string drawn for the coercion functions
MaxStrLen == 3

\* most entries of a tree's raw paths mapping
MaxPaths == 2

\* most entries of a tree's raw children mapping
MaxParents == 3

\* most trees of a forest file
MaxForest == 2

\* most rows of the dataset
MaxRows == 2

----------------------------------------------------------------------------
(* Python values *)

PyNone == [t |-> "none", n |-> 0, e |-> 0, s |-> <<>>]
PyBool(b) == [t |-> "bool", n |-> IF b THEN 1 ELSE 0, e |-> 0, s |-> <<>>]
PyInt(k) == [t |-> "int", n |-> k, e |-> 0, s |-> <<>>]
PyFloat(m, d) == [t |-> "float", n |-> m, e |-> d, s |-> <<>>]
PyNaN == [t |-> "nan", n |-> 0, e |-> 0, s |-> <<>>]
PyInf(sign) == [t |-> "inf", n |-> sign, e |-> 0, s |-> <<>>]
PyStr(chars) == [t |-> "str", n |-> 0, e |-> 0, s |-> chars]
PyTimestamp(iso) == [t |-> "timestamp", n |-> 0, e |-> 0, s |-> iso]
PyOther == [t |-> "other", n |-> 0, e |-> 0, s |-> <<>>]
PyExc(name) == [t |-> "exc", n |-> 0, e |-> 0, s |-> name]

OverflowError == PyExc(<<"OverflowError">>)

\* isinstance(value, (int, float)): bool is a subclass of int
IsNumber(v) == v.t \in {"bool", "int", "float", "nan", "inf"}

RECURSIVE TenTo(_)
TenTo(k) == IF k <= 0 THEN 1 ELSE 10 * TenTo(k - 1)

Abs(k) == IF k < 0 THEN -k ELSE k

\* a finite decimal with its trailing fractional zeros removed
RECURSIVE Decimal(_, _)
Decimal(m, d) ==
    IF d > 0 /\ m % 10 = 0 THEN Decimal(m \div 10, d - 1) ELSE PyFloat(m, d)

----------------------------------------------------------------------------
(* Text: str.strip, str.lower, str(int), repr(float), float(str) *)

Whitespace == {" ", "\t", "\n"}
DigitChars == <<"0", "1", "2", "3", "4", "5", "6", "7", "8", "9">>
IsDigit(c) == \E i \in 1..10 : DigitChars[i] = c
DigitVal(c) == (CHOOSE i \in 1..10 : DigitChars[i] = c) - 1

RECURSIVE lstrip(_)
lstrip(s) ==
    IF s # <<>> /\ Head(s) \in Whitespace THEN lstrip(Tail(s)) ELSE s

RECURSIVE rstrip(_)
rstrip(s) ==
    IF s # <<>> /\ s[Len(s)] \in Whitespace
    THEN rstrip(SubSeq(s, 1, Len(s) - 1))
    ELSE s

strip(s) == rstrip(lstrip(s))

UpperChars == <<"A", "B", "C", "D", "E", "F", "G", "H", "I", "J", "K", "L", "M",
                "N", "O", "P", "Q", "R", "S", "T", "U", "V", "W", "X", "Y", "Z">>
LowerChars == <<"a", "b", "c", "d", "e", "f", "g", "h", "i", "j", "k", "l", "m",
                "n", "o", "p", "q", "r", "s", "t", "u", "v", "w", "x", "y", "z">>

LowerChar(c) ==
    IF \E i \in 1..26 : UpperChars[i] = c
    THEN LowerChars[CHOOSE i \in 1..26 : UpperChars[i] = c]
    ELSE c

lower(s) == [i \in 1..Len(s) |-> LowerChar(s[i])]

startswith(s, prefix) ==
    Len(s) >= Len(prefix) /\ SubSeq(s, 1, Len(prefix)) = prefix

\* the decimal digits of a natural number
RECURSIVE NatChars(_)
NatChars(k) ==
    IF k < 10 THEN <<DigitChars[k + 1]>>
    ELSE NatChars(k \div 10) \o <<DigitChars[(k % 10) + 1]>>

\* k as exactly w digits, zero-padded on the left
RECURSIVE PadChars(_, _)
PadChars(k, w) ==
    IF w = 0 THEN <<>> ELSE PadChars(k \div 10, w - 1) \o <<DigitChars[(k % 10) + 1]>>

IntChars(k) == IF k < 0 THEN <<"-">> \o NatChars(-k) ELSE NatChars(k)

\* repr of a finite float n / 10^e
FloatChars(m, d) ==
    (IF m < 0 THEN <<"-">> ELSE <<>>)
        \o NatChars(Abs(m) \div TenTo(d))
        \o <<".">>
        \o (IF d = 0 THEN <<"0">> ELSE PadChars(Abs(m) % TenTo(d), d))

\* str(value) of a number
NumberChars(v) ==
    CASE v.t = "bool" -> IF v.n = 1 THEN <<"T", "r", "u", "e">>
                                    ELSE <<"F", "a", "l", "s", "e">>
      [] v.t = "int" -> IntChars(v.n)
      [] v.t = "float" -> FloatChars(v.n, v.e)
      [] v.t = "nan" -> <<"n", "a", "n">>
      [] v.t = "inf" -> IF v.n < 0 THEN <<"-", "i", "n", "f">> ELSE <<"i", "n", "f">>

AllDigits(s) == \A i \in 1..Len(s) : IsDigit(s[i])

RECURSIVE DigitsVal(_)
DigitsVal(s) ==
    IF s = <<>> THEN 0
    ELSE 10 * DigitsVal(SubSeq(s, 1, Len(s) - 1)) + DigitVal(s[Len(s)])

\* the unsigned body of float(text): digits, digits with a point, inf, nan
ParseUnsigned(s, sign) ==
    LET low == lower(s)
        dots == {i \in 1..Len(s) : s[i] = "."}
    IN  IF low = <<"i", "n", "f">> \/ low = <<"i", "n", "f", "i", "n", "i", "t", "y">>
        THEN PyInf(sign)
        ELSE IF low = <<"n", "a", "n">> THEN PyNaN
        ELSE IF s # <<>> /\ AllDigits(s) THEN Decimal(sign * DigitsVal(s), 0)
        ELSE IF Cardinality(dots) = 1
        THEN LET p == CHOOSE i \in dots : TRUE
                 whole == SubSeq(s, 1, p - 1)
                 frac == SubSeq(s, p + 1, Len(s))
             IN  IF AllDigits(whole) /\ AllDigits(frac) /\ Len(whole) + Len(frac) > 0
                 THEN Decimal(sign * DigitsVal(whole \o frac), Len(frac))
                 ELSE PyExc(<<"ValueError">>)
        ELSE PyExc(<<"ValueError">>)

\* float(text): surrounding whitespace is ignored, one leading sign is allowed
ParseFloat(text) ==
    LET s == strip(text)
    IN  IF s = <<>> THEN PyExc(<<"ValueError">>)
        ELSE IF Head(s) = "-" THEN ParseUnsigned(Tail(s), -1)
        ELSE IF Head(s) = "+" THEN ParseUnsigned(Tail(s), 1)
        ELSE ParseUnsigned(s, 1)

\* int(x) of a float: truncation toward zero; nan and inf raise
TruncFloat(v) ==
    CASE v.t = "float" ->
            PyInt(IF v.n < 0 THEN -(Abs(v.n) \div TenTo(v.e)) ELSE v.n \div TenTo(v.e))
      [] v.t = "inf" -> OverflowError
      [] v.t = "nan" -> PyExc(<<"ValueError">>)
      [] OTHER -> v

----------------------------------------------------------------------------
(* The coercion functions *)

to_string(value) ==
    IF value.t = "str" THEN strip(value.s)
    ELSE IF IsNumber(value)
    THEN IF value.t = "nan" THEN <<>> ELSE strip(NumberChars(value))
    ELSE <<>>

to_int(value) ==
    IF value.t = "bool" THEN PyInt(value.n)
    ELSE IF IsNumber(value)
    THEN IF value.t = "nan" THEN PyInt(0)
         ELSE IF value.t = "int" THEN PyInt(value.n)
         ELSE TruncFloat(value)
    ELSE IF value.t = "str"
    THEN LET f == ParseFloat(strip(value.s))
             k == TruncFloat(f)
         IN  IF f.t = "exc" \/ k.t = "exc" THEN PyInt(0) ELSE k
    ELSE PyInt(0)

to_float(value) ==
    IF IsNumber(value)
    THEN IF value.t = "nan" THEN PyFloat(0, 0)
         ELSE IF value.t \in {"bool", "int"} THEN PyFloat(value.n, 0)
         ELSE value
    ELSE IF value.t = "str"
    THEN LET f == ParseFloat(strip(value.s))
         IN  IF f.t = "exc" THEN PyFloat(0, 0) ELSE f
    ELSE PyFloat(0, 0)

detect_retweet(text) ==
    LET snippet == lstrip(text)
    IN  IF snippet = <<>> THEN FALSE
        ELSE startswith(lower(snippet), <<"r", "t", " ", "@">>)

----------------------------------------------------------------------------
(* Python dicts and raw containers *)

DictHas(d, k) == \E i \in 1..Len(d) : d[i][1] = k

DictGet(d, k, default) ==
    IF DictHas(d, k) THEN d[CHOOSE i \in 1..Len(d) : d[i][1] = k][2] ELSE default

\* d[k] = v: a key already present keeps its place in the iteration order
DictSet(d, k, v) ==
    IF DictHas(d, k)
    THEN [i \in 1..Len(d) |-> IF d[i][1] = k THEN <<k, v>> ELSE d[i]]
    ELSE Append(d, <<k, v>>)

DictKeys(d) == [i \in 1..Len(d) |-> d[i][1]]
DictValues(d) == [i \in 1..Len(d) |-> d[i][2]]

\* a raw container: a dict or a list with its items, or any other object
RawDict(items) == [kind |-> "dict", items |-> items]
RawList(items) == [kind |-> "list", items |-> items]
NotContainer == [kind |-> "other", items |-> <<>>]

NonEmpty(s) == s # <<>>

\* to_string of every entry, the empty results dropped
CoerceEntries(items) ==
    SelectSeq([i \in 1..Len(items) |-> to_string(items[i])], NonEmpty)

----------------------------------------------------------------------------
(* The path selector *)

RECURSIVE ChildrenFold(_, _)
ChildrenFold(items, acc) ==
    IF items = <<>> THEN acc
    ELSE LET parent_id == to_string(Head(items)[1])
             child_list == Head(items)[2]
             bucket == IF child_list.kind = "list"
                       THEN CoerceEntries(child_list.items)
                       ELSE <<>>
         IN  ChildrenFold(Tail(items),
                          IF parent_id # <<>> /\ bucket # <<>>
                          THEN DictSet(acc, parent_id, bucket)
                          ELSE acc)

build_children_map(children_map_raw) ==
    IF children_map_raw.kind = "dict"
    THEN ChildrenFold(children_map_raw.items, <<>>)
    ELSE <<>>

RECURSIVE PathsFold(_, _)
PathsFold(items, acc) ==
    IF items = <<>> THEN acc
    ELSE LET leaf == Head(items)[1]
             path == Head(items)[2]
             normalized == IF path.kind = "list" THEN CoerceEntries(path.items) ELSE <<>>
         IN  PathsFold(Tail(items),
                       IF normalized # <<>>
                       THEN DictSet(acc, to_string(leaf), normalized)
                       ELSE acc)

build_normalized_paths(paths) ==
    IF paths.kind = "dict" THEN PathsFold(paths.items, <<>>) ELSE <<>>

\* a candidate that is left as it is, the root not put first
NormalizeCandidateUnrooted(path, root_id) ==
    CoerceEntries([i \in 1..Len(path) |-> PyStr(path[i])])

\* one candidate of pick_longest_path: entries coerced, root_id put first
NormalizeCandidate(path, root_id) ==
    LET normalized == CoerceEntries([i \in 1..Len(path) |-> PyStr(path[i])])
    IN  IF normalized = <<>> THEN <<>>
        ELSE IF normalized[1] # root_id THEN <<root_id>> \o normalized
        ELSE normalized

\* a comparison that lets a path of equal length replace the best
KeepsLongerOrEqual(candidate, best) == Len(candidate) >= Len(best)

\* len(candidate) > len(best_path), at lines 75 and 86
KeepsLonger(candidate, best) == Len(candidate) > Len(best)

\* the loop over paths.values()
RECURSIVE ScanPaths(_, _, _)
ScanPaths(values, root_id, best) ==
    IF values = <<>> THEN best
    ELSE LET normalized == NormalizeCandidate(Head(values), root_id)
         IN  ScanPaths(Tail(values), root_id,
                       IF normalized # <<>> /\ KeepsLonger(normalized, best)
                       THEN normalized
                       ELSE best)

\* a traversal that keeps the first leaf it reaches
DfsVisitFirstLeaf(rest, best, current_path, next_children, child_ids) ==
    IF next_children = <<>>
    THEN [stack |-> rest, best_path |-> IF best = <<>> THEN current_path ELSE best]
    ELSE [stack |-> rest \o [i \in 1..Len(child_ids) |-> current_path \o <<child_ids[i]>>],
          best_path |-> best]

\* the body of the while loop once current_path is popped
DfsVisit(rest, best, current_path, next_children, child_ids) ==
    IF next_children = <<>>
    THEN [stack |-> rest,
          best_path |-> IF KeepsLonger(current_path, best) THEN current_path ELSE best]
    ELSE [stack |-> rest \o [i \in 1..Len(child_ids) |-> current_path \o <<child_ids[i]>>],
          best_path |-> best]

\* children.get(current_node, [])
NextChildren(children, current_path) ==
    DictGet(children, current_path[Len(current_path)], <<>>)

\* each child through to_string, the empty ids dropped
ChildIds(next_children) ==
    CoerceEntries([i \in 1..Len(next_children) |-> PyStr(next_children[i])])

\* one iteration of the while loop: st = [stack, best_path]
DfsIter(st, children) ==
    DfsVisit(SubSeq(st.stack, 1, Len(st.stack) - 1), st.best_path,
             st.stack[Len(st.stack)],
             NextChildren(children, st.stack[Len(st.stack)]),
             ChildIds(NextChildren(children, st.stack[Len(st.stack)])))

\* the ids the traversal can name: a path over a relation without cycles never
\* holds more entries, and a longer one runs round a cycle, which the loop
\* follows without end
NodeCount(root_id, children) ==
    Cardinality({root_id}
                    \cup {children[i][1] : i \in 1..Len(children)}
                    \cup UNION {{children[i][2][j] : j \in 1..Len(children[i][2])} :
                                    i \in 1..Len(children)})

RunsForever(st, root_id, children) ==
    st.stack # <<>> /\ Len(st.stack[Len(st.stack)]) > NodeCount(root_id, children)

RECURSIVE DfsRun(_, _, _)
DfsRun(st, root_id, children) ==
    IF st.stack = <<>> THEN [path |-> st.best_path, returns |-> TRUE]
    ELSE IF RunsForever(st, root_id, children) THEN [path |-> <<>>, returns |-> FALSE]
    ELSE DfsRun(DfsIter(st, children), root_id, children)

\* the longest precomputed candidate, <<>> when there is none
scan_precomputed(paths, root_id) ==
    IF paths # <<>> THEN ScanPaths(DictValues(paths), root_id, <<>>) ELSE <<>>

\* a stack whose first path names the root twice
initial_stack_doubled(root_id) == <<<<root_id, root_id>>>>

\* stack = [[root_id]]
initial_stack(root_id) == <<<<root_id>>>>

\* the rest of pick_longest_path once the precomputed paths gave best
PickAfterScan(best, root_id, children) ==
    IF best # <<>> THEN [path |-> best, returns |-> TRUE]
    ELSE DfsRun([stack |-> initial_stack(root_id), best_path |-> <<>>], root_id, children)

\* [path, returns]: returns is FALSE when the call never returns
pick_longest_path(paths, root_id, children) ==
    PickAfterScan(scan_precomputed(paths, root_id), root_id, children)

\* `if not longest_path: longest_path = [root_id]`
DefaultPath(picked, root_id) ==
    IF picked.returns /\ picked.path = <<>>
    THEN [path |-> <<root_id>>, returns |-> TRUE]
    ELSE picked

\* longest_path of the main loop
select_longest_path(paths, root_id, children_map_raw) ==
    DefaultPath(pick_longest_path(build_normalized_paths(paths), root_id,
                                  build_children_map(children_map_raw)),
                root_id)

----------------------------------------------------------------------------
(* The tweet record store *)

\* Series.astype(str) of one cell of the tweet_id and cluster columns, which
\* hold text, numbers or nulls
astype_str(v) ==
    CASE v.t = "str" -> v.s
      [] v.t = "none" -> <<"N", "o", "n", "e">>
      [] IsNumber(v) -> NumberChars(v)

\* Optional[str]: PyNone or a non-empty PyStr
normalize_created_at(value) ==
    IF value.t = "none" THEN PyNone
    ELSE IF value.t = "str"
    THEN IF strip(value.s) # <<>> THEN PyStr(strip(value.s)) ELSE PyNone
    ELSE IF value.t = "timestamp" THEN PyStr(value.s)
    ELSE IF to_string(value) # <<>> THEN PyStr(to_string(value)) ELSE PyNone

\* a row of the dataset: the eight columns read, raw
Row(tweet_id, cluster, cluster_prob, username, created_at, full_text, favorite_count, reply_to_tweet_id) ==
    [tweet_id |-> tweet_id, cluster |-> cluster, cluster_prob |-> cluster_prob,
     username |-> username, created_at |-> created_at, full_text |-> full_text,
     favorite_count |-> favorite_count, reply_to_tweet_id |-> reply_to_tweet_id]

\* the value stored in tweet_lookup for one row (after the astype(str) of lines 168-169)
lookup_record(record) ==
    [cluster |-> to_string(PyStr(astype_str(record.cluster))),
     cluster_prob |-> to_float(record.cluster_prob),
     username |-> to_string(record.username),
     created_at |-> normalize_created_at(record.created_at),
     full_text |-> to_string(record.full_text),
     favorite_count |-> to_int(record.favorite_count),
     reply_to_tweet_id |-> to_string(record.reply_to_tweet_id)]

\* the loop over tweets_df.to_dict("records"): acc = [dict, raised]
RECURSIVE LookupFold(_, _)
LookupFold(rows, acc) ==
    IF rows = <<>> \/ acc.raised THEN acc
    ELSE LET tweet_id == to_string(PyStr(astype_str(Head(rows).tweet_id)))
             stored == lookup_record(Head(rows))
         IN  LookupFold(Tail(rows),
                        IF tweet_id = <<>> THEN acc
                        ELSE IF stored.favorite_count.t = "exc"
                        THEN [dict |-> acc.dict, raised |-> TRUE]
                        ELSE [dict |-> DictSet(acc.dict, tweet_id, stored),
                              raised |-> FALSE])

build_tweet_lookup(rows) == LookupFold(rows, [dict |-> <<>>, raised |-> FALSE])

----------------------------------------------------------------------------
(* Forest loading and merging *)

\* a forest file: absent, unreadable by pickle, or holding a payload
NoFile == [file |-> "absent", payload |-> NotContainer]
CorruptFile == [file |-> "corrupt", payload |-> NotContainer]
PickleFile(payload) == [file |-> "pickle", payload |-> payload]

\* trees_data / incomplete_data of lines 187-197: the items of the dict loaded
load_forest(f) ==
    IF f.file = "pickle" /\ f.payload.kind = "dict" THEN f.payload.items ELSE <<>>

\* one pass of the merge loop over source_map.items()
RECURSIVE MergeFold(_, _, _)
MergeFold(items, is_incomplete, combined) ==
    IF items = <<>> THEN combined
    ELSE LET root_id == to_string(Head(items)[1])
             tree == Head(items)[2]
         IN  MergeFold(Tail(items), is_incomplete,
                       IF root_id = <<>> \/ DictHas(combined, root_id)
                       THEN combined
                       ELSE Append(combined,
                                   <<root_id, [tree |-> tree,
                                               is_incomplete |-> is_incomplete]>>))

\* a merge that takes the incomplete forest first
merge_incomplete_first(complete, incomplete) ==
    MergeFold(complete, FALSE, MergeFold(incomplete, TRUE, <<>>))

\* lines 199-209: the complete forest first, a root already merged is left alone
merge_forests(complete, incomplete) ==
    MergeFold(incomplete, TRUE, MergeFold(complete, FALSE, <<>>))

----------------------------------------------------------------------------
(* Attribute fusion and thread aggregation *)

\* an embedded tweet record of a tree, raw; a key left out reads as None
Embedded(username, created_at, full_text, favorite_count, reply_to_tweet_id, cluster, cluster_prob) ==
    [kind |-> "dict", username |-> username, created_at |-> created_at,
     full_text |-> full_text, favorite_count |-> favorite_count,
     reply_to_tweet_id |-> reply_to_tweet_id, cluster |-> cluster,
     cluster_prob |-> cluster_prob]

EmptyEmbedded == Embedded(PyNone, PyNone, PyNone, PyNone, PyNone, PyNone, PyNone)

NotEmbedded == [EmptyEmbedded EXCEPT !.kind = "other"]

\* a tree payload: a mapping with its three containers, or any other object
Tree(tweets, children, paths) ==
    [kind |-> "dict", tweets |-> tweets, children |-> children, paths |-> paths]

NotTree == [kind |-> "other", tweets |-> NotContainer, children |-> NotContainer,
            paths |-> NotContainer]

\* tree_info of line 265: the record under the key equal to the id, when a dict
tree_info_of(tweets, tweet_id) ==
    LET found == DictGet(tweets, PyStr(tweet_id), NotEmbedded)
    IN  IF found.kind = "dict" THEN found ELSE EmptyEmbedded

\* a fusion that prefers the tree's text
OrTextEmbeddedFirst(store_value, embedded_value) ==
    IF embedded_value # <<>> THEN embedded_value ELSE store_value

\* Python's `store or embedded` on text
OrText(store_value, embedded_value) ==
    IF store_value # <<>> THEN store_value ELSE embedded_value

\* a > b on floats
FloatGreater(a, b) ==
    IF a.t = "nan" \/ b.t = "nan" THEN FALSE
    ELSE IF a.t = "inf" THEN a.n > 0 /\ ~(b.t = "inf" /\ b.n > 0)
    ELSE IF b.t = "inf" THEN b.n < 0
    ELSE a.n * TenTo(b.e) > b.n * TenTo(a.e)

\* truth value of a float
FloatTruthy(a) == ~(a.t = "float" /\ a.n = 0)

\* tweet_info of line 264: the store's record, every field None when the id is unknown
NoTweetInfo ==
    [cluster |-> <<>>, cluster_prob |-> PyNone, username |-> <<>>,
     created_at |-> PyNone, full_text |-> <<>>, favorite_count |-> PyNone,
     reply_to_tweet_id |-> <<>>]

tweet_info_of(lookup, tweet_id) == DictGet(lookup, tweet_id, NoTweetInfo)

\* Python's `store if store is not None else embedded` on numbers
OrNumber(store_value, embedded_value) ==
    IF store_value.t # "none" THEN store_value ELSE embedded_value

\* Python's `store or embedded` on Optional[str]
OrOptional(store_value, embedded_value) ==
    IF store_value.t = "str" /\ store_value.s # <<>> THEN store_value ELSE embedded_value

\* the entry appended for one tweet, from its fused fields
Entry(tweet_id, username, created_at, full_text, favorite_count, reply_to, cluster_id, cluster_prob) ==
    [raised |-> favorite_count.t = "exc",
     entry |-> [id |-> tweet_id,
                username |-> username,
                created_at |-> created_at,
                full_text |-> full_text,
                favorite_count |-> to_int(favorite_count),
                cluster_id |-> cluster_id,
                cluster_prob |-> cluster_prob,
                is_reply |-> reply_to # <<>>,
                is_retweet |-> detect_retweet(full_text)]]

\* lines 267-277: each field from the store, else from the tree
fuse_fields(tweet_id, tweet_info, tree_info) ==
    Entry(tweet_id,
          OrText(tweet_info.username, to_string(tree_info.username)),
          OrOptional(tweet_info.created_at, normalize_created_at(tree_info.created_at)),
          OrText(tweet_info.full_text, to_string(tree_info.full_text)),
          OrNumber(tweet_info.favorite_count, to_int(tree_info.favorite_count)),
          OrText(tweet_info.reply_to_tweet_id, to_string(tree_info.reply_to_tweet_id)),
          OrText(tweet_info.cluster, to_string(tree_info.cluster)),
          OrNumber(tweet_info.cluster_prob, to_float(tree_info.cluster_prob)))

\* the body of the per-tweet loop up to the entry: [entry, raised]
fuse_tweet(tweet_id, lookup, tweets) ==
    fuse_fields(tweet_id, tweet_info_of(lookup, tweet_id), tree_info_of(tweets, tweet_id))

\* the accumulators before the per-tweet loop
NewThread(root_id, is_incomplete) ==
    [id |-> root_id,
     cluster_id |-> <<>>,
     is_incomplete |-> is_incomplete,
     root_is_reply |-> FALSE,
     contains_retweet |-> FALSE,
     total_favorites |-> 0,
     root_created_at |-> PyNone,
     max_cluster_prob |-> PyFloat(0, 0),
     tweets |-> <<>>]

\* an iteration that assigns the favorite count instead of adding it
add_entry_assigning(thread, entry) ==
    [id |-> thread.id,
     cluster_id |-> IF entry.cluster_id # <<>> /\ thread.cluster_id = <<>>
                    THEN entry.cluster_id ELSE thread.cluster_id,
     is_incomplete |-> thread.is_incomplete,
     root_is_reply |-> IF thread.tweets = <<>> THEN entry.is_reply
                       ELSE thread.root_is_reply,
     contains_retweet |-> thread.contains_retweet \/ entry.is_retweet,
     total_favorites |-> entry.favorite_count.n,
     root_created_at |-> IF thread.tweets = <<>> THEN entry.created_at
                         ELSE thread.root_created_at,
     max_cluster_prob |-> IF FloatTruthy(entry.cluster_prob)
                              /\ FloatGreater(entry.cluster_prob, thread.max_cluster_prob)
                          THEN entry.cluster_prob ELSE thread.max_cluster_prob,
     tweets |-> Append(thread.tweets, entry)]

\* an iteration that keeps the latest probability instead of the largest
add_entry_latest_prob(thread, entry) ==
    [id |-> thread.id,
     cluster_id |-> IF entry.cluster_id # <<>> /\ thread.cluster_id = <<>>
                    THEN entry.cluster_id ELSE thread.cluster_id,
     is_incomplete |-> thread.is_incomplete,
     root_is_reply |-> IF thread.tweets = <<>> THEN entry.is_reply
                       ELSE thread.root_is_reply,
     contains_retweet |-> thread.contains_retweet \/ entry.is_retweet,
     total_favorites |-> thread.total_favorites + entry.favorite_count.n,
     root_created_at |-> IF thread.tweets = <<>> THEN entry.created_at
                         ELSE thread.root_created_at,
     max_cluster_prob |-> IF FloatTruthy(entry.cluster_prob)
                          THEN entry.cluster_prob ELSE thread.max_cluster_prob,
     tweets |-> Append(thread.tweets, entry)]

\* one iteration of the per-tweet loop on the accumulators
add_entry(thread, entry) ==
    [id |-> thread.id,
     cluster_id |-> IF entry.cluster_id # <<>> /\ thread.cluster_id = <<>>
                    THEN entry.cluster_id ELSE thread.cluster_id,
     is_incomplete |-> thread.is_incomplete,
     root_is_reply |-> IF thread.tweets = <<>> THEN entry.is_reply
                       ELSE thread.root_is_reply,
     contains_retweet |-> thread.contains_retweet \/ entry.is_retweet,
     total_favorites |-> thread.total_favorites + entry.favorite_count.n,
     root_created_at |-> IF thread.tweets = <<>> THEN entry.created_at
                         ELSE thread.root_created_at,
     max_cluster_prob |-> IF FloatTruthy(entry.cluster_prob)
                              /\ FloatGreater(entry.cluster_prob, thread.max_cluster_prob)
                          THEN entry.cluster_prob ELSE thread.max_cluster_prob,
     tweets |-> Append(thread.tweets, entry)]

\* the per-tweet loop: acc = [thread, raised]
RECURSIVE EntriesFold(_, _, _, _)
EntriesFold(path, lookup, tweets, acc) ==
    IF path = <<>> \/ acc.raised THEN acc
    ELSE LET fused == fuse_tweet(Head(path), lookup, tweets)
         IN  EntriesFold(Tail(path), lookup, tweets,
                         IF fused.raised
                         THEN [thread |-> acc.thread, raised |-> TRUE]
                         ELSE [thread |-> add_entry(acc.thread, fused.entry),
                               raised |-> FALSE])

\* one iteration of the loop over combined_roots on a mapping tree:
\* [outcome, thread], outcome one of "thread", "skip", "raise", "hang"
\* tweets of lines 217-219
tweets_of(tree) == IF tree.tweets.kind = "dict" THEN tree.tweets.items ELSE <<>>

\* how the iteration ends once the per-tweet loop is through
ThreadOutcome(built) ==
    IF built.raised THEN [outcome |-> "raise", thread |-> built.thread]
    ELSE IF built.thread.tweets = <<>> THEN [outcome |-> "skip", thread |-> built.thread]
    ELSE [outcome |-> "thread", thread |-> built.thread]

\* the iteration from the selected path on
ThreadOfPath(selected, root_id, tree, is_incomplete, lookup) ==
    IF ~selected.returns
    THEN [outcome |-> "hang", thread |-> NewThread(root_id, is_incomplete)]
    ELSE ThreadOutcome(EntriesFold(selected.path, lookup, tweets_of(tree),
                                   [thread |-> NewThread(root_id, is_incomplete),
                                    raised |-> FALSE]))

build_thread(root_id, tree, is_incomplete, lookup) ==
    ThreadOfPath(select_longest_path(tree.paths, root_id, tree.children),
                 root_id, tree, is_incomplete, lookup)

----------------------------------------------------------------------------
(* Sorting and emission *)

\* the characters of the model in code point order
CharOrder == <<"\t", "\n", " ", "+", "-", ".",
               "0", "1", "2", "3", "4", "5", "6", "7", "8", "9", ":", "@">>
                 \o UpperChars \o LowerChars

CharRank(c) == CHOOSE i \in 1..Len(CharOrder) : CharOrder[i] = c

\* a < b on str
RECURSIVE StrLess(_, _)
StrLess(a, b) ==
    IF b = <<>> THEN FALSE
    ELSE IF a = <<>> THEN TRUE
    ELSE IF Head(a) = Head(b) THEN StrLess(Tail(a), Tail(b))
    ELSE CharRank(Head(a)) < CharRank(Head(b))

\* the sort key of a thread: (root_created_at is not None, root_created_at or "")
sort_key(item) ==
    [dated |-> item.root_created_at.t # "none",
     text |-> IF item.root_created_at.t = "none" THEN <<>> ELSE item.root_created_at.s]

\* a < b on sort keys (tuple comparison, False < True)
KeyLess(a, b) ==
    IF a.dated # b.dated THEN b.dated ELSE StrLess(a.text, b.text)

\* where list.sort(reverse=True) puts item among the sorted items before it:
\* behind every item whose key is not smaller
RECURSIVE InsertDescending(_, _)
InsertDescending(sorted, item) ==
    IF sorted = <<>> THEN <<item>>
    ELSE IF KeyLess(sort_key(Head(sorted)), sort_key(item))
    THEN <<item>> \o sorted
    ELSE <<Head(sorted)>> \o InsertDescending(Tail(sorted), item)

RECURSIVE SortFold(_, _)
SortFold(items, sorted) ==
    IF items = <<>> THEN sorted
    ELSE SortFold(Tail(items), InsertDescending(sorted, Head(items)))

\* a sort that leaves out reverse=True
RECURSIVE InsertAscending(_, _)
InsertAscending(sorted, item) ==
    IF sorted = <<>> THEN <<item>>
    ELSE IF KeyLess(sort_key(item), sort_key(Head(sorted)))
    THEN <<item>> \o sorted
    ELSE <<Head(sorted)>> \o InsertAscending(Tail(sorted), item)

RECURSIVE SortFoldAscending(_, _)
SortFoldAscending(items, sorted) ==
    IF items = <<>> THEN sorted
    ELSE SortFoldAscending(Tail(items), InsertAscending(sorted, Head(items)))

sort_threads_ascending(items) == SortFoldAscending(items, <<>>)

\* threads.sort(key=..., reverse=True): stable, descending
sort_threads(items) == SortFold(items, <<>>)

\* the JSON objects printed
ErrorObject(reason) == [key |-> "__error__", reason |-> reason, threads |-> <<>>]
ThreadsObject(items) == [key |-> "threads", reason |-> "", threads |-> items]

----------------------------------------------------------------------------
(* Coercion harness: one raw value, one call *)

CoerceChars == {" ", "1", "5", "-", ".", "n", "a", "i", "f"}

RawStrings == UNION {[1..k -> CoerceChars] : k \in 0..MaxStrLen}

RawValues ==
    {PyNone, PyBool(TRUE), PyBool(FALSE), PyNaN, PyInf(1), PyInf(-1), PyOther,
     PyTimestamp(<<"2", "0", "2", "4">>)}
        \cup {PyInt(k) : k \in {-12, -1, 0, 7, 105}}
        \cup {PyFloat(0, 0), PyFloat(20, 1), PyFloat(5, 1), PyFloat(-15, 1),
              PyFloat(29, 1), PyFloat(-29, 1), PyFloat(125, 2)}
        \cup {PyStr(s) : s \in RawStrings}

CoerceIdle == co_arg = PyNone /\ co_fn = "idle" /\ co_ret = PyNone

PathIdle ==
    /\ ps_pc = "idle"
    /\ ps_root = <<>>
    /\ ps_paths = NotContainer
    /\ ps_children = NotContainer
    /\ children_map = <<>>
    /\ normalized_paths = <<>>
    /\ stack = <<>>
    /\ best_path = <<>>
    /\ longest_path = <<>>

RunIdle ==
    /\ pc = "idle"
    /\ env = [pandas |-> TRUE, user_dir |-> TRUE]
    /\ files = [tweets |-> [file |-> "absent", rows |-> <<>>],
                trees |-> NoFile, incomplete |-> NoFile]
    /\ tweets_df = <<>>
    /\ tweet_lookup = <<>>
    /\ trees_data = <<>>
    /\ incomplete_data = <<>>
    /\ combined_roots = <<>>
    /\ tree_index = 0
    /\ threads = <<>>
    /\ stdout = <<>>

CoerceInit ==
    co_arg \in RawValues /\ co_fn = "" /\ co_ret = PyNone /\ PathIdle /\ RunIdle

CallToString ==
    /\ co_fn = ""
    /\ co_fn' = "to_string"
    /\ co_ret' = PyStr(to_string(co_arg))
    /\ UNCHANGED <<co_arg, ps_vars, run_vars>>

CallToInt ==
    /\ co_fn = ""
    /\ co_fn' = "to_int"
    /\ co_ret' = to_int(co_arg)
    /\ UNCHANGED <<co_arg, ps_vars, run_vars>>

CallToFloat ==
    /\ co_fn = ""
    /\ co_fn' = "to_float"
    /\ co_ret' = to_float(co_arg)
    /\ UNCHANGED <<co_arg, ps_vars, run_vars>>

CoerceNext == CallToString \/ CallToInt \/ CallToFloat

SpecCoerce == CoerceInit /\ [][CoerceNext]_vars

----------------------------------------------------------------------------
(* Path selection harness: one tree, the selector run step by step *)

sR == <<"R">>
sa == <<"a">>
sb == <<"b">>
sc == <<"c">>

\* Every dict of at most n items with distinct keys drawn from keys and values from values
DictsUpTo(keys, values, n) ==
    UNION {{d \in [1..k -> keys \X values] :
                \A i, j \in 1..k : i # j => d[i][1] # d[j][1]} : k \in 0..n}

RawPathSamples ==
    {RawList(<<PyStr(sR), PyStr(sa)>>),
     RawList(<<PyStr(sR), PyStr(sb)>>),
     RawList(<<PyStr(sR), PyStr(sa), PyStr(sb)>>),
     RawList(<<PyStr(sa), PyStr(sb)>>),
     RawList(<<PyStr(sb)>>),
     RawList(<<PyNone, PyStr(<<" ", "R", " ">>), PyStr(<<" ">>), PyInt(7)>>),
     RawList(<<PyStr(<<" ", "a">>), PyStr(sR)>>),
     RawList(<<PyStr(sR)>>),
     RawList(<<PyNone>>),
     NotContainer}

LeafKeySamples == {PyStr(sa), PyStr(<<" ", "a">>), PyStr(sb)}

RawChildListSamples ==
    {RawList(<<PyStr(sa), PyStr(sb)>>),
     RawList(<<PyStr(sb), PyInt(7)>>),
     RawList(<<PyStr(<<" ", "c">>)>>),
     RawList(<<PyStr(sR)>>),
     RawList(<<PyNone, PyStr(<<" ">>)>>)}

ParentKeySamples == {PyStr(sR), PyStr(sa), PyStr(<<" ", "a">>), PyStr(sb)}

\* trees whose precomputed paths vary, over a few children relations
PathCasesPrecomputed ==
    (({RawDict(d) : d \in DictsUpTo(LeafKeySamples, RawPathSamples, MaxPaths)}
        \cup {NotContainer})
     \X {NotContainer,
         RawDict(<<<<PyStr(sR), RawList(<<PyStr(sa), PyStr(sb)>>)>>,
                   <<PyStr(sb), RawList(<<PyStr(sc)>>)>>,
                   <<PyStr(sc), RawList(<<PyStr(sa)>>)>>>>),
         RawDict(<<<<PyStr(sR), RawList(<<PyStr(sR)>>)>>>>)})

\* trees whose children relation varies, without a usable precomputed path
PathCasesFallback ==
    ({NotContainer, RawDict(<<<<PyStr(sa), RawList(<<PyNone>>)>>>>)}
     \X ({RawDict(d) : d \in DictsUpTo(ParentKeySamples, RawChildListSamples, MaxParents)}
            \cup {NotContainer}))

PathCases == PathCasesPrecomputed \cup PathCasesFallback

PathInit ==
    /\ CoerceIdle
    /\ RunIdle
    /\ ps_pc = "prepare"
    /\ ps_root = sR
    /\ \E c \in PathCases : ps_paths = c[1] /\ ps_children = c[2]
    /\ children_map = <<>>
    /\ normalized_paths = <<>>
    /\ stack = <<>>
    /\ best_path = <<>>
    /\ longest_path = <<>>

\* the main loop's container validation for one tree
PrepareTree ==
    /\ ps_pc = "prepare"
    /\ children_map' = build_children_map(ps_children)
    /\ normalized_paths' = build_normalized_paths(ps_paths)
    /\ ps_pc' = "scan"
    /\ UNCHANGED <<co_vars, run_vars, ps_root, ps_paths, ps_children, stack, best_path, longest_path>>

\* pick_longest_path up to its while loop: the precomputed paths
ScanPrecomputed ==
    /\ ps_pc = "scan"
    /\ best_path' = scan_precomputed(normalized_paths, ps_root)
    /\ IF best_path' # <<>>
       THEN ps_pc' = "return" /\ stack' = <<>>
       ELSE ps_pc' = "dfs" /\ stack' = initial_stack(ps_root)
    /\ UNCHANGED <<co_vars, run_vars, ps_root, ps_paths, ps_children, children_map,
                   normalized_paths, longest_path>>

\* one iteration of the while loop
DfsStep ==
    /\ ps_pc = "dfs"
    /\ stack # <<>>
    /\ ~RunsForever([stack |-> stack, best_path |-> best_path], ps_root, children_map)
    /\ stack' = DfsIter([stack |-> stack, best_path |-> best_path], children_map).stack
    /\ best_path' =
           DfsIter([stack |-> stack, best_path |-> best_path], children_map).best_path
    /\ UNCHANGED <<co_vars, run_vars, ps_pc, ps_root, ps_paths, ps_children, children_map,
                   normalized_paths, longest_path>>

\* the loop is following a cycle of the children relation: it never ends
DfsHang ==
    /\ ps_pc = "dfs"
    /\ RunsForever([stack |-> stack, best_path |-> best_path], ps_root, children_map)
    /\ ps_pc' = "hang"
    /\ UNCHANGED <<co_vars, run_vars, ps_root, ps_paths, ps_children, children_map,
                   normalized_paths, stack, best_path, longest_path>>

\* pick_longest_path returns; the main loop applies its [root_id] default
ReturnPath ==
    /\ \/ ps_pc = "return"
       \/ ps_pc = "dfs" /\ stack = <<>>
    /\ longest_path' = DefaultPath([path |-> best_path, returns |-> TRUE], ps_root).path
    /\ ps_pc' = "done"
    /\ UNCHANGED <<co_vars, run_vars, ps_root, ps_paths, ps_children, children_map,
                   normalized_paths, stack, best_path>>

PathNext == PrepareTree \/ ScanPrecomputed \/ DfsStep \/ DfsHang \/ ReturnPath

SpecPath == PathInit /\ [][PathNext]_vars

\* the step-by-step run and the selector taken as one call agree
StepwiseAgrees ==
    LET whole == select_longest_path(ps_paths, ps_root, ps_children)
    IN  /\ ps_pc = "done" => whole.returns /\ whole.path = longest_path
        /\ ps_pc = "hang" => ~whole.returns

----------------------------------------------------------------------------
(* The script *)

\* the script is run as `get_user_threads.py <root> <user>`
GoodEnv == [pandas |-> TRUE, user_dir |-> TRUE]

BadEnvs ==
    {[pandas |-> FALSE, user_dir |-> TRUE],
     [pandas |-> FALSE, user_dir |-> FALSE],
     [pandas |-> TRUE, user_dir |-> FALSE]}

NoDataset == [file |-> "absent", rows |-> <<>>]
CorruptDataset == [file |-> "corrupt", rows |-> <<>>]
Parquet(rows) == [file |-> "parquet", rows |-> rows]

UserDir(tweets, trees, incomplete) ==
    [tweets |-> tweets, trees |-> trees, incomplete |-> incomplete]

sS == <<"S">>
sT == <<"T">>

\* sample rows of the dataset for one tweet id
RowOf(id, profile) ==
    CASE profile = "full" ->
            Row(PyStr(id), PyInt(3), PyFloat(9, 1), PyStr(<<"u">>), PyStr(<<"2">>),
                PyStr(<<"R", "T", " ", "@", "x">>), PyInt(5), PyStr(<<"p">>))
      [] profile = "blank" ->
            Row(PyStr(id), PyStr(<<" ">>), PyNaN, PyNone, PyNone, PyStr(<<>>), PyNaN,
                PyNone)
      [] profile = "mixed" ->
            Row(PyStr(id), PyNone, PyStr(<<"0", ".", "3">>), PyStr(<<" ", "v", " ">>),
                PyTimestamp(<<"1", "0">>), PyNone, PyFloat(-29, 1), PyFloat(12, 0))
      [] profile = "inf" ->
            Row(PyStr(id), PyInt(3), PyInf(1), PyStr(<<"u">>), PyStr(<<"2">>),
                PyStr(<<"h">>), PyInf(1), PyNone)

RowProfiles == {"full", "blank", "mixed", "inf"}

\* sample embedded records of a tree
EmbeddedOf(profile) ==
    CASE profile = "full" ->
            Embedded(PyStr(<<"w">>), PyStr(<<"3">>), PyStr(<<"h">>), PyInt(2),
                     PyStr(<<"q">>), PyStr(<<"4">>), PyFloat(1, 1))
      [] profile = "raw" ->
            Embedded(PyInt(7), PyInt(10), PyStr(<<" ", "r", "t", " ", "@", "z">>),
                     PyStr(<<"1", ".", "5">>), PyNone, PyInt(4),
                     PyStr(<<"0", ".", "5">>))
      [] profile = "empty" -> EmptyEmbedded
      [] profile = "notdict" -> NotEmbedded
      [] profile = "inf" ->
            Embedded(PyStr(<<"w">>), PyNone, PyStr(<<"h">>), PyInf(-1), PyNone,
                     PyNone, PyInf(1))

\* the tweets mapping of a tree holding the given profiles ("" leaves the id out)
TweetsOf(ids, profiles) ==
    RawDict(SelectSeq([i \in 1..Len(ids) |->
                          IF profiles[i] = "" THEN <<>>
                          ELSE <<PyStr(ids[i]), EmbeddedOf(profiles[i])>>],
                      NonEmpty))

\* sample trees for a root id
TreeOf(kind, rid) ==
    CASE kind = "chain" ->
            Tree(TweetsOf(<<rid, sa>>, <<"full", "raw">>),
                 RawDict(<<<<PyStr(rid), RawList(<<PyStr(sa)>>)>>>>),
                 NotContainer)
      [] kind = "bare" -> Tree(NotContainer, NotContainer, NotContainer)
      [] kind = "path" ->
            Tree(TweetsOf(<<rid>>, <<"raw">>),
                 NotContainer,
                 RawDict(<<<<PyStr(sb), RawList(<<PyStr(rid), PyStr(sb)>>)>>>>))
      [] kind = "cyclic" ->
            Tree(NotContainer,
                 RawDict(<<<<PyStr(rid), RawList(<<PyStr(sa)>>)>>,
                           <<PyStr(sa), RawList(<<PyStr(rid)>>)>>>>),
                 NotContainer)
      [] kind = "lists" ->
            Tree(RawList(<<>>), RawList(<<>>), RawList(<<>>))
      [] kind = "badpaths" ->
            Tree(TweetsOf(<<rid>>, <<"notdict">>),
                 RawDict(<<<<PyStr(rid), NotContainer>>, <<PyNone, RawList(<<PyStr(sa)>>)>>>>),
                 RawDict(<<<<PyStr(sa), NotContainer>>, <<PyStr(sb), RawList(<<PyNone>>)>>>>))
      [] kind = "nottree" -> NotTree

\* a forest payload from <<key, kind>> items
ForestOf(d) ==
    PickleFile(RawDict([i \in 1..Len(d) |->
                            <<d[i][1], TreeOf(d[i][2], to_string(d[i][1]))>>]))

CompleteKeys == {PyStr(sR), PyStr(<<" ", "R">>), PyStr(sS)}
IncompleteKeys == {PyStr(sR), PyStr(sT)}

\* forests that share roots and differ in dates, over two datasets
ForestScenarios ==
    {UserDir(Parquet(rows), ForestOf(c), ForestOf(i)) :
        rows \in {<<RowOf(sS, "mixed")>>, <<RowOf(sc, "full")>>},
        c \in DictsUpTo(CompleteKeys, {"chain", "bare", "nottree"}, MaxForest),
        i \in DictsUpTo(IncompleteKeys, {"path", "bare"}, MaxForest)}

\* one tree R -> a whose embedded records vary, over datasets whose rows vary
FusionScenarios ==
    {UserDir(Parquet([k \in 1..Len(rows) |-> RowOf(rows[k][1], rows[k][2])]),
             PickleFile(RawDict(<<
                 <<PyStr(sR),
                   Tree(TweetsOf(<<sR, sa>>, <<pr, pa>>),
                        RawDict(<<<<PyStr(sR), RawList(<<PyStr(sa)>>)>>>>),
                        NotContainer)>>>>)),
             NoFile) :
        rows \in UNION {[1..k -> {sR, sa} \X RowProfiles] : k \in 0..MaxRows},
        pr \in {"", "full", "raw", "notdict", "inf"},
        pa \in {"", "full", "raw", "empty"}}

\* trees and forest files of unexpected shape
ShapeScenarios ==
    {UserDir(Parquet(<<RowOf(sc, "full")>>),
             ForestOf(<<<<PyStr(sR), k>>, <<PyStr(sS), "chain">>>>),
             i) :
        k \in {"cyclic", "lists", "badpaths", "nottree", "bare"},
        i \in {NoFile, CorruptFile, PickleFile(NotContainer),
               ForestOf(<<<<PyNone, "chain">>, <<PyInt(12), "path">>>>)}}
      \cup
    {UserDir(Parquet(<<RowOf(sc, "full")>>), c, ForestOf(<<<<PyStr(sR), "path">>>>)) :
        c \in {NoFile, CorruptFile, PickleFile(NotContainer), PickleFile(RawDict(<<>>))}}

\* datasets that end the run early
DatasetScenarios ==
    {UserDir(d, c, i) :
        d \in {NoDataset, CorruptDataset, Parquet(<<>>)},
        c \in {NoFile, CorruptFile, ForestOf(<<<<PyStr(sR), "chain">>>>),
               ForestOf(<<<<PyStr(sR), "cyclic">>>>)},
        i \in {NoFile, ForestOf(<<<<PyStr(sT), "path">>>>)}}

\* an embedded record that holds a favorite count and a cluster probability
EmbeddedWith(favorite_count, cluster_prob) ==
    Embedded(PyStr(<<"w">>), PyStr(<<"3">>), PyStr(<<"h">>), favorite_count, PyNone,
             PyStr(<<"4">>), cluster_prob)

FavoriteSamples ==
    {<<PyInt(2), PyInt(0), PyInt(5)>>,
     <<PyStr(<<"1", ".", "5">>), PyNaN, PyBool(TRUE)>>,
     <<PyNone, PyStr(<<"n">>), PyOther>>,
     <<PyInt(-1), PyInt(2), PyFloat(-29, 1)>>}

ProbSamples ==
    {<<PyFloat(1, 1), PyFloat(9, 1), PyFloat(3, 1)>>,
     <<PyFloat(9, 1), PyFloat(9, 1), PyFloat(1, 1)>>,
     <<PyFloat(0, 0), PyNone, PyNaN>>,
     <<PyFloat(-5, 1), PyInt(0), PyStr(<<"n">>)>>,
     <<PyFloat(-5, 1), PyStr(<<"0", ".", "3">>), PyInt(-1)>>}

\* one tree whose precomputed path a -> c leaves the root out, its three
\* embedded records varying in favorite count and cluster probability
AggregationScenarios ==
    {UserDir(Parquet(rows),
             PickleFile(RawDict(<<
                 <<PyStr(sR),
                   Tree(RawDict(<<<<PyStr(sR), EmbeddedWith(f[1], p[1])>>,
                                  <<PyStr(sa), EmbeddedWith(f[2], p[2])>>,
                                  <<PyStr(sc), EmbeddedWith(f[3], p[3])>>>>),
                        NotContainer,
                        RawDict(<<<<PyStr(sc), RawList(<<PyStr(sa), PyStr(sc)>>)>>>>))>>>>)),
             NoFile) :
        rows \in {<<RowOf(sb, "full")>>, <<RowOf(sa, "mixed")>>},
        f \in FavoriteSamples,
        p \in ProbSamples}

Scenarios ==
    ForestScenarios \cup FusionScenarios \cup ShapeScenarios \cup DatasetScenarios
        \cup AggregationScenarios

Init ==
    /\ CoerceIdle
    /\ PathIdle
    /\ pc = "import"
    /\ \/ env = GoodEnv /\ files \in Scenarios
       \/ env \in BadEnvs /\ files \in DatasetScenarios
    /\ tweets_df = <<>>
    /\ tweet_lookup = <<>>
    /\ trees_data = <<>>
    /\ incomplete_data = <<>>
    /\ combined_roots = <<>>
    /\ tree_index = 0
    /\ threads = <<>>
    /\ stdout = <<>>

\* print(json.dumps(obj)); sys.exit(0)
EmitAndExit(obj) == stdout' = Append(stdout, obj) /\ pc' = "exited"

\* lines 124-128
ImportPandas ==
    /\ pc = "import"
    /\ IF env.pandas
       THEN pc' = "args" /\ UNCHANGED stdout
       ELSE EmitAndExit(ErrorObject("missing-dependency"))
    /\ UNCHANGED <<co_vars, ps_vars, env, files, tweets_df, tweet_lookup, trees_data,
                   incomplete_data, combined_roots, tree_index, threads>>

\* lines 131-137
CheckUserDir ==
    /\ pc = "args"
    /\ IF ~env.user_dir
       THEN EmitAndExit(ErrorObject("not-found"))
       ELSE pc' = "dataset" /\ UNCHANGED stdout
    /\ UNCHANGED <<co_vars, ps_vars, env, files, tweets_df, tweet_lookup, trees_data,
                   incomplete_data, combined_roots, tree_index, threads>>

\* what the script prints when the dataset file is absent
missing_dataset_output == ThreadsObject(<<>>)

\* an empty dataset reported like an unreadable one
empty_dataset_error == ErrorObject("tweets-read")

\* what the script prints when the dataset holds no row
empty_dataset_output == ThreadsObject(<<>>)

\* lines 139-166
ReadDataset ==
    /\ pc = "dataset"
    /\ IF files.tweets.file = "absent"
       THEN EmitAndExit(missing_dataset_output) /\ UNCHANGED tweets_df
       ELSE IF files.tweets.file = "corrupt"
       THEN EmitAndExit(ErrorObject("tweets-read")) /\ UNCHANGED tweets_df
       ELSE /\ tweets_df' = files.tweets.rows
            /\ IF files.tweets.rows = <<>>
               THEN EmitAndExit(empty_dataset_output)
               ELSE pc' = "lookup" /\ UNCHANGED stdout
    /\ UNCHANGED <<co_vars, ps_vars, env, files, tweet_lookup, trees_data,
                   incomplete_data, combined_roots, tree_index, threads>>

LookupStep(built) ==
    IF built.raised
    THEN pc' = "crashed" /\ UNCHANGED tweet_lookup
    ELSE pc' = "forests" /\ tweet_lookup' = built.dict

\* lines 168-185: to_int raising ends the script with a traceback
BuildLookup ==
    /\ pc = "lookup"
    /\ LookupStep(build_tweet_lookup(tweets_df))
    /\ UNCHANGED <<co_vars, ps_vars, env, files, tweets_df, trees_data,
                   incomplete_data, combined_roots, tree_index, threads, stdout>>

\* lines 187-197
LoadForests ==
    /\ pc = "forests"
    /\ trees_data' = load_forest(files.trees)
    /\ incomplete_data' = load_forest(files.incomplete)
    /\ pc' = "merge"
    /\ UNCHANGED <<co_vars, ps_vars, env, files, tweets_df, tweet_lookup,
                   combined_roots, tree_index, threads, stdout>>

\* lines 199-211
MergeForests ==
    /\ pc = "merge"
    /\ combined_roots' = merge_forests(trees_data, incomplete_data)
    /\ tree_index' = 1
    /\ pc' = "trees"
    /\ UNCHANGED <<co_vars, ps_vars, env, files, tweets_df, tweet_lookup, trees_data,
                   incomplete_data, threads, stdout>>

\* an iteration that takes a tree that is no mapping for an empty tree
process_root_degrading(item, lookup) ==
    build_thread(item[1], item[2].tree, item[2].is_incomplete, lookup)

\* the iteration for one item of combined_roots: a tree that is no mapping is skipped
process_root(item, lookup) ==
    IF item[2].tree.kind # "dict"
    THEN [outcome |-> "skip", thread |-> NewThread(item[1], item[2].is_incomplete)]
    ELSE build_thread(item[1], item[2].tree, item[2].is_incomplete, lookup)

TreeStep(built) ==
    IF built.outcome = "skip"
    THEN tree_index' = tree_index + 1 /\ UNCHANGED <<pc, threads>>
    ELSE IF built.outcome = "hang"
    THEN pc' = "hang" /\ UNCHANGED <<tree_index, threads>>
    ELSE IF built.outcome = "raise"
    THEN pc' = "crashed" /\ UNCHANGED <<tree_index, threads>>
    ELSE /\ threads' = Append(threads, built.thread)
         /\ tree_index' = tree_index + 1
         /\ UNCHANGED pc

\* lines 213-324: one iteration of the loop over combined_roots
ProcessTree ==
    /\ pc = "trees"
    /\ tree_index <= Len(combined_roots)
    /\ TreeStep(process_root(combined_roots[tree_index], tweet_lookup))
    /\ UNCHANGED <<co_vars, ps_vars, env, files, tweets_df, tweet_lookup, trees_data,
                   incomplete_data, combined_roots, stdout>>

\* lines 326-338
EmitThreads ==
    /\ pc = "trees"
    /\ tree_index > Len(combined_roots)
    /\ IF threads = <<>>
       THEN EmitAndExit(ThreadsObject(<<>>)) /\ UNCHANGED threads
       ELSE threads' = sort_threads(threads) /\ EmitAndExit(ThreadsObject(threads'))
    /\ UNCHANGED <<co_vars, ps_vars, env, files, tweets_df, tweet_lookup, trees_data,
                   incomplete_data, combined_roots, tree_index>>

Next ==
    \/ ImportPandas
    \/ CheckUserDir
    \/ ReadDataset
    \/ BuildLookup
    \/ LoadForests
    \/ MergeForests
    \/ ProcessTree
    \/ EmitThreads

Spec == Init /\ [][Next]_vars

----------------------------------------------------------------------------
(* Properties of the coercions, checked under SpecCoerce *)

\* C8: no coercion function ever raises: once a call has been made on any raw
\* value, to_string has returned a string, to_int an integer and to_float a
\* float, and never an exception.
C8_CoercionsNeverRaise ==
    /\ co_fn = "to_string" => co_ret.t = "str"
    /\ co_fn = "to_int" => co_ret.t = "int"
    /\ co_fn = "to_float" => co_ret.t \in {"float", "nan", "inf"}

----------------------------------------------------------------------------
(* Properties of the path selection, checked under SpecPath *)

\* a path of the tree's paths container as the selector is meant to see it:
\* entries coerced, empty entries dropped, the root put first when missing;
\* <<>> when nothing is left or the value is not a list
CandidateOf(path, root_id) ==
    IF path.kind # "list" \/ CoerceEntries(path.items) = <<>> THEN <<>>
    ELSE IF CoerceEntries(path.items)[1] = root_id THEN CoerceEntries(path.items)
    ELSE <<root_id>> \o CoerceEntries(path.items)

\* the candidates of the tree, in the iteration order of its paths mapping
Candidates ==
    IF ps_paths.kind # "dict" THEN <<>>
    ELSE SelectSeq([i \in 1..Len(ps_paths.items) |->
                        CandidateOf(ps_paths.items[i][2], ps_root)],
                   LAMBDA c : c # <<>>)

SeqMax(lens) == CHOOSE m \in lens : \A k \in lens : k <= m

MaxCandidateLen == SeqMax({Len(Candidates[i]) : i \in 1..Len(Candidates)})

\* C2: when the tree holds at least one candidate, the path selected is one of
\* the candidates and no candidate is longer, whatever the children relation.
C2_LongestCandidateSelected ==
    (ps_pc \in {"done", "hang"} /\ Candidates # <<>>) =>
        /\ ps_pc = "done"
        /\ \E i \in 1..Len(Candidates) : longest_path = Candidates[i]
        /\ Len(longest_path) = MaxCandidateLen

\* C3: when several candidates share the maximum length, the first of them in
\* the iteration order of the paths mapping is the path selected.
C3_FirstOfLongestSelected ==
    (ps_pc = "done"
        /\ Cardinality({i \in 1..Len(Candidates) :
                            Len(Candidates[i]) = MaxCandidateLen}) > 1) =>
        \E i \in 1..Len(Candidates) :
            /\ longest_path = Candidates[i]
            /\ Len(Candidates[i]) = MaxCandidateLen
            /\ \A j \in 1..(i - 1) : Len(Candidates[j]) < MaxCandidateLen

\* the children of a node in the relation the traversal follows
ChildrenOf(node) == DictGet(children_map, node, <<>>)

ChildSet(node) == {ChildrenOf(node)[i] : i \in 1..Len(ChildrenOf(node))}

RelationNodes ==
    {ps_root} \cup {children_map[i][1] : i \in 1..Len(children_map)}
              \cup UNION {ChildSet(children_map[i][1]) : i \in 1..Len(children_map)}

\* the nodes reached from node in at most k steps along the relation
RECURSIVE Descendants(_, _)
Descendants(nodes, k) ==
    IF k = 0 THEN {}
    ELSE (UNION {ChildSet(n) : n \in nodes})
            \cup Descendants(UNION {ChildSet(n) : n \in nodes}, k - 1)

Acyclic ==
    \A n \in RelationNodes : n \notin Descendants({n}, Cardinality(RelationNodes))

\* the number of nodes of the longest chain from node down to a leaf
RECURSIVE ChainDepth(_)
ChainDepth(node) ==
    IF ChildSet(node) = {} THEN 1
    ELSE 1 + SeqMax({ChainDepth(c) : c \in ChildSet(node)})

\* C4: without a usable precomputed path and over an acyclic children relation
\* the traversal ends, and the path selected starts at the root, steps from
\* each node to one of its children, ends at a node without children and is
\* as long as the longest root-to-leaf chain.
C4_FallbackLongestChain ==
    (ps_pc \in {"done", "hang"} /\ Candidates = <<>> /\ Acyclic) =>
        /\ ps_pc = "done"
        /\ longest_path # <<>>
        /\ longest_path[1] = ps_root
        /\ \A i \in 1..(Len(longest_path) - 1) :
               longest_path[i + 1] \in ChildSet(longest_path[i])
        /\ ChildSet(longest_path[Len(longest_path)]) = {}
        /\ Len(longest_path) = ChainDepth(ps_root)

C4_Witness ==
    /\ ps_pc = "done"
    /\ Candidates = <<>>
    /\ Acyclic
    /\ Len(longest_path) = 3
    /\ \E c \in ChildSet(ps_root) : ChildSet(c) = {}

\* C5 as stated: a tree with an empty children relation has the path [root_id].
C5_EmptyRelationRootOnly_Original ==
    (ps_pc \in {"done", "hang"} /\ children_map = <<>>) =>
        ps_pc = "done" /\ longest_path = <<ps_root>>

\* C5: a tree with an empty children relation and no usable precomputed path
\* has the path [root_id].
C5_EmptyRelationRootOnly ==
    (ps_pc \in {"done", "hang"} /\ children_map = <<>> /\ Candidates = <<>>) =>
        ps_pc = "done" /\ longest_path = <<ps_root>>

C5_Witness ==
    /\ ps_pc = "done"
    /\ children_map = <<>>
    /\ Candidates = <<>>
    /\ ps_paths.kind = "dict" /\ ps_paths.items # <<>>
    /\ ps_children.kind = "dict" /\ ps_children.items # <<>>
    /\ longest_path = <<ps_root>>

----------------------------------------------------------------------------
(* Properties of the script, checked under Spec *)

\* the root ids a forest names, after key coercion
RootsOf(forest) == {to_string(forest[i][1]) : i \in 1..Len(forest)} \ {<<>>}

\* the tree a forest holds for a root id: the first whose key coerces to it
FirstTreeOf(forest, root_id) ==
    forest[CHOOSE i \in 1..Len(forest) :
               /\ to_string(forest[i][1]) = root_id
               /\ \A j \in 1..(i - 1) : to_string(forest[j][1]) # root_id][2]

\* the forest entry a root id resolves to: the complete forest's when it has one
ResolvedRoot(root_id) ==
    IF root_id \in RootsOf(trees_data)
    THEN [tree |-> FirstTreeOf(trees_data, root_id), is_incomplete |-> FALSE]
    ELSE [tree |-> FirstTreeOf(incomplete_data, root_id), is_incomplete |-> TRUE]

\* the thread the main loop builds for a root id from the entry it resolves to
ThreadFrom(root_id, resolved) ==
    process_root(<<root_id, resolved>>, tweet_lookup).thread

\* C1: a root id occurs at most once in the merged forest and in the threads;
\* a root of the complete forest resolves to the complete forest's tree and its
\* thread is built from that tree with is_incomplete false, also when the
\* incomplete forest names the same root; a root of the incomplete forest alone
\* has is_incomplete true.
C1_CompleteForestWins ==
    /\ \A i, j \in 1..Len(combined_roots) :
           i # j => combined_roots[i][1] # combined_roots[j][1]
    /\ \A i \in 1..Len(combined_roots) :
           /\ combined_roots[i][1] \in RootsOf(trees_data) \cup RootsOf(incomplete_data)
           /\ combined_roots[i][2] = ResolvedRoot(combined_roots[i][1])
    /\ tree_index > 0 =>
           RootsOf(trees_data) \cup RootsOf(incomplete_data)
               = {combined_roots[i][1] : i \in 1..Len(combined_roots)}
    /\ \A i, j \in 1..Len(threads) : i # j => threads[i].id # threads[j].id
    /\ \A i \in 1..Len(threads) :
           /\ threads[i].id \in RootsOf(trees_data) \cup RootsOf(incomplete_data)
           /\ threads[i].is_incomplete = (threads[i].id \notin RootsOf(trees_data))
           /\ threads[i] = ThreadFrom(threads[i].id, ResolvedRoot(threads[i].id))
    /\ pc = "exited" => \A k \in 1..Len(stdout) : stdout[k].threads = threads

C1_Witness ==
    /\ pc = "exited"
    /\ Len(stdout) = 1
    /\ \E i, j \in 1..Len(stdout[1].threads) :
           /\ stdout[1].threads[i].id \in RootsOf(trees_data) \cap RootsOf(incomplete_data)
           /\ FirstTreeOf(trees_data, stdout[1].threads[i].id)
                  # FirstTreeOf(incomplete_data, stdout[1].threads[i].id)
           /\ ~stdout[1].threads[i].is_incomplete
           /\ stdout[1].threads[j].id \in RootsOf(incomplete_data) \ RootsOf(trees_data)
           /\ stdout[1].threads[j].is_incomplete

\* the embedded tweets of the tree a thread was built from
EmbeddedTweets(root_id) ==
    tweets_of(DictGet(combined_roots, root_id, [tree |-> NotTree]).tree)

HasEmbedded(root_id, tweet_id) ==
    /\ DictHas(EmbeddedTweets(root_id), PyStr(tweet_id))
    /\ DictGet(EmbeddedTweets(root_id), PyStr(tweet_id), NotEmbedded).kind = "dict"

EmbeddedRecord(root_id, tweet_id) ==
    DictGet(EmbeddedTweets(root_id), PyStr(tweet_id), NotEmbedded)

StoreRecord(tweet_id) == DictGet(tweet_lookup, tweet_id, NoTweetInfo)

\* a text field: the store's when the store has the id and the text is not
\* empty, else the coerced embedded text, else ""
FusedText(root_id, tweet_id, field) ==
    IF DictHas(tweet_lookup, tweet_id) /\ StoreRecord(tweet_id)[field] # <<>>
    THEN StoreRecord(tweet_id)[field]
    ELSE IF HasEmbedded(root_id, tweet_id)
    THEN to_string(EmbeddedRecord(root_id, tweet_id)[field])
    ELSE <<>>

\* created_at: the store's when it has one, else the normalized embedded one,
\* else null
FusedCreatedAt(root_id, tweet_id) ==
    IF DictHas(tweet_lookup, tweet_id) /\ StoreRecord(tweet_id).created_at.t # "none"
    THEN StoreRecord(tweet_id).created_at
    ELSE IF HasEmbedded(root_id, tweet_id)
    THEN normalize_created_at(EmbeddedRecord(root_id, tweet_id).created_at)
    ELSE PyNone

\* favorite_count: the store's when the store has the id, else the coerced
\* embedded count, else 0
FusedFavorites(root_id, tweet_id) ==
    IF DictHas(tweet_lookup, tweet_id) THEN StoreRecord(tweet_id).favorite_count
    ELSE IF HasEmbedded(root_id, tweet_id)
    THEN to_int(EmbeddedRecord(root_id, tweet_id).favorite_count)
    ELSE PyInt(0)

\* cluster probability: the store's when the store has the id, else the coerced
\* embedded one, else 0.0
FusedClusterProb(root_id, tweet_id) ==
    IF DictHas(tweet_lookup, tweet_id) THEN StoreRecord(tweet_id).cluster_prob
    ELSE IF HasEmbedded(root_id, tweet_id)
    THEN to_float(EmbeddedRecord(root_id, tweet_id).cluster_prob)
    ELSE PyFloat(0, 0)

FusedAsClaimed(root_id, entry) ==
    /\ entry.username = FusedText(root_id, entry.id, "username")
    /\ entry.created_at = FusedCreatedAt(root_id, entry.id)
    /\ entry.full_text = FusedText(root_id, entry.id, "full_text")
    /\ entry.favorite_count = FusedFavorites(root_id, entry.id)
    /\ entry.is_reply = (FusedText(root_id, entry.id, "reply_to_tweet_id") # <<>>)
    /\ entry.cluster_id = FusedText(root_id, entry.id, "cluster")
    /\ entry.cluster_prob = FusedClusterProb(root_id, entry.id)

\* C6: every field of every entry of every thread carries the tweet store's
\* value when the store has a present, non-empty value for it, else the
\* coerced value of the tree's embedded record, else the field's zero value.
C6_StoreBeforeEmbedded ==
    \A i \in 1..Len(threads) :
        \A k \in 1..Len(threads[i].tweets) :
            FusedAsClaimed(threads[i].id, threads[i].tweets[k])

\* both sources name a different user for the root tweet, and the store lacks
\* the reply although the tree has it
C6_Witness ==
    /\ pc = "exited"
    /\ \E i \in 1..Len(threads) :
           /\ Len(threads[i].tweets) = 2
           /\ DictHas(tweet_lookup, threads[i].tweets[1].id)
           /\ HasEmbedded(threads[i].id, threads[i].tweets[1].id)
           /\ StoreRecord(threads[i].tweets[1].id).username # <<>>
           /\ to_string(EmbeddedRecord(threads[i].id, threads[i].tweets[1].id).username)
                  \notin {<<>>, StoreRecord(threads[i].tweets[1].id).username}
           /\ threads[i].tweets[1].username = StoreRecord(threads[i].tweets[1].id).username
           /\ ~DictHas(tweet_lookup, threads[i].tweets[2].id)
           /\ HasEmbedded(threads[i].id, threads[i].tweets[2].id)
           /\ threads[i].tweets[2].favorite_count # PyInt(0)

\* the threads printed
Emitted == IF stdout = <<>> THEN <<>> ELSE stdout[1].threads

Dated(thread) == thread.root_created_at.t # "none"

DateText(thread) == IF Dated(thread) THEN thread.root_created_at.s ELSE <<>>

\* where the merged forest holds the root of a thread
RootPosition(thread) ==
    CHOOSE i \in 1..Len(combined_roots) : combined_roots[i][1] = thread.id

\* C9: in the thread list printed, dated threads come before undated ones,
\* dated threads are in non-increasing order of root_created_at, and threads
\* with equal keys keep the order of the merged forest.
C9_OutputOrdering ==
    \A i, j \in 1..Len(Emitted) :
        i < j =>
            /\ Dated(Emitted[j]) => Dated(Emitted[i])
            /\ (Dated(Emitted[i]) /\ Dated(Emitted[j])) =>
                   ~StrLess(DateText(Emitted[i]), DateText(Emitted[j]))
            /\ (Dated(Emitted[i]) = Dated(Emitted[j])
                    /\ DateText(Emitted[i]) = DateText(Emitted[j])) =>
                   RootPosition(Emitted[i]) < RootPosition(Emitted[j])

\* three threads printed: the root the merged forest holds first is undated
\* and printed last, behind two threads of the same date in forest order
C9_Witness ==
    /\ pc = "exited"
    /\ Len(Emitted) = 3
    /\ ~Dated(Emitted[3])
    /\ RootPosition(Emitted[3]) = 1
    /\ Dated(Emitted[1])
    /\ DateText(Emitted[1]) = DateText(Emitted[2])
    /\ RootPosition(Emitted[1]) < RootPosition(Emitted[2])

\* the conditions under which the script reports an error
ErrorCondition == ~env.pandas \/ ~env.user_dir \/ files.tweets.file = "corrupt"

\* C7: the run never ends abnormally and never runs without end; it prints at
\* most one object, exactly one by the time it has exited, and that object
\* carries __error__ only when the data library is missing, the user directory
\* is not found or the dataset is unreadable, and threads otherwise.
C7_OneObjectNormalExit ==
    /\ pc \notin {"crashed", "hang"}
    /\ Len(stdout) <= 1
    /\ pc = "exited" =>
           /\ Len(stdout) = 1
           /\ stdout[1].key \in {"__error__", "threads"}
           /\ stdout[1].key = "__error__" => ErrorCondition
           /\ ~ErrorCondition => stdout[1].key = "threads"

\* the dataset file is absent, or present without a row
EmptyDataset ==
    \/ files.tweets.file = "absent"
    \/ files.tweets.file = "parquet" /\ files.tweets.rows = <<>>

\* C10 as stated: with the user directory present and an empty dataset the
\* output is exactly {"threads": []}.
C10_EmptyDatasetNoError_Original ==
    (pc = "exited" /\ env.user_dir /\ EmptyDataset) =>
        stdout = <<ThreadsObject(<<>>)>>

\* C10: with the data library importable, the user directory present and the
\* dataset absent or without rows, the run exits having printed exactly
\* {"threads": []}, whatever the forest files hold.
C10_EmptyDatasetNoError ==
    (env.pandas /\ env.user_dir /\ EmptyDataset) =>
        /\ pc \in {"import", "args", "dataset", "exited"}
        /\ pc = "exited" => stdout = <<ThreadsObject(<<>>)>>
        /\ pc # "exited" => stdout = <<>>

\* a dataset without rows beside a forest file whose tree is cyclic
C10_Witness ==
    /\ pc = "exited"
    /\ env.pandas /\ env.user_dir
    /\ files.tweets.file = "parquet" /\ files.tweets.rows = <<>>
    /\ files.trees.file = "pickle"
    /\ \E i \in 1..Len(files.trees.payload.items) :
           ~select_longest_path(files.trees.payload.items[i][2].paths, sR,
                                files.trees.payload.items[i][2].children).returns
    /\ stdout = <<ThreadsObject(<<>>)>>

\* a container as the claim reads it: itself when a mapping, else empty
OrEmptyDict(container) == IF container.kind = "dict" THEN container ELSE RawDict(<<>>)

\* a tree payload with empty containers in place of the malformed ones
Degraded(tree) ==
    Tree(OrEmptyDict(tree.tweets), OrEmptyDict(tree.children), OrEmptyDict(tree.paths))

Malformed(tree) ==
    \/ tree.kind # "dict"
    \/ tree.tweets.kind # "dict"
    \/ tree.children.kind # "dict"
    \/ tree.paths.kind # "dict"

\* the run went through the whole merged forest and printed its threads
RanThrough == pc = "exited" /\ tree_index > Len(combined_roots)

\* C11: once the run is through the merged forest, every entry whose tree
\* payload is not a mapping or holds a malformed container has contributed the
\* thread of the tree with empty containers in place of the malformed ones.
C11_MalformedDegradesLocally ==
    RanThrough =>
        \A i \in 1..Len(combined_roots) :
            Malformed(combined_roots[i][2].tree) =>
                \E k \in 1..Len(threads) :
                    /\ threads[k].id = combined_roots[i][1]
                    /\ threads[k] = build_thread(combined_roots[i][1],
                                                 Degraded(combined_roots[i][2].tree),
                                                 combined_roots[i][2].is_incomplete,
                                                 tweet_lookup).thread

\* the sum of the favorite counts of the first k entries
RECURSIVE FavoritesSum(_, _)
FavoritesSum(entries, k) ==
    IF k = 0 THEN 0 ELSE FavoritesSum(entries, k - 1) + entries[k].favorite_count.n

\* C12: the total_favorites of every thread is the sum of the favorite counts
\* of the entries of its tweets list.
C12_TotalFavoritesIsSum ==
    \A i \in 1..Len(threads) :
        /\ \A k \in 1..Len(threads[i].tweets) : threads[i].tweets[k].favorite_count.t = "int"
        /\ threads[i].total_favorites = FavoritesSum(threads[i].tweets, Len(threads[i].tweets))

\* a printed thread of three entries with the counts 2, 0 and 5
C12_Witness ==
    /\ pc = "exited"
    /\ \E i \in 1..Len(Emitted) :
           /\ Len(Emitted[i].tweets) = 3
           /\ Emitted[i].tweets[1].favorite_count = PyInt(2)
           /\ Emitted[i].tweets[2].favorite_count = PyInt(0)
           /\ Emitted[i].tweets[3].favorite_count = PyInt(5)
           /\ Emitted[i].total_favorites = 7

\* the cluster probabilities of a thread's entries that lie above 0
PositiveProbs(thread) ==
    {p \in {thread.tweets[k].cluster_prob : k \in 1..Len(thread.tweets)} :
         FloatGreater(p, PyFloat(0, 0))}

\* C13: the max_cluster_prob of every thread is the largest cluster
\* probability of its entries when one of them lies above 0, and 0 otherwise.
C13_MaxClusterProbFloorZero ==
    \A i \in 1..Len(threads) :
        IF PositiveProbs(threads[i]) = {}
        THEN threads[i].max_cluster_prob = PyFloat(0, 0)
        ELSE /\ threads[i].max_cluster_prob \in PositiveProbs(threads[i])
             /\ \A p \in PositiveProbs(threads[i]) :
                    ~FloatGreater(p, threads[i].max_cluster_prob)

\* a printed thread with the probabilities -0.5, 0.3 and -1.0: the entries at
\* or below 0 leave the maximum alone
C13_Witness ==
    /\ pc = "exited"
    /\ \E i \in 1..Len(Emitted) :
           /\ Len(Emitted[i].tweets) = 3
           /\ Emitted[i].tweets[1].cluster_prob = PyFloat(-5, 1)
           /\ Emitted[i].tweets[2].cluster_prob = PyFloat(3, 1)
           /\ FloatGreater(PyFloat(0, 0), Emitted[i].tweets[3].cluster_prob)
           /\ Emitted[i].max_cluster_prob = PyFloat(3, 1)

\* C14: the favorite_count of every entry of every thread is an integer not
\* below 0, and so is the total_favorites of every thread.
C14_FavoritesNonNegative ==
    \A i \in 1..Len(threads) :
        /\ threads[i].total_favorites >= 0
        /\ \A k \in 1..Len(threads[i].tweets) :
               /\ threads[i].tweets[k].favorite_count.t = "int"
               /\ threads[i].tweets[k].favorite_count.n >= 0

\* C15: every thread has a first entry, the id of that entry is the id of the
\* thread, and the thread's root_is_reply and root_created_at are that entry's
\* is_reply and created_at.
C15_RootAnchored ==
    \A i \in 1..Len(threads) :
        /\ threads[i].tweets # <<>>
        /\ threads[i].tweets[1].id = threads[i].id
        /\ threads[i].root_is_reply = threads[i].tweets[1].is_reply
        /\ threads[i].root_created_at = threads[i].tweets[1].created_at

\* the tree a thread was built from
ThreadTree(root_id) == DictGet(combined_roots, root_id, [tree |-> NotTree]).tree

\* the tree holds a usable precomputed path that does not start at the root
PathLeavesRootOut(tree, root_id) ==
    /\ tree.paths.kind = "dict"
    /\ \E k \in 1..Len(tree.paths.items) :
           /\ CandidateOf(tree.paths.items[k][2], root_id) # <<>>
           /\ to_string(tree.paths.items[k][2].items[1]) # root_id

\* a printed thread whose precomputed path left the root out and whose second
\* entry differs from the root entry in is_reply and created_at
C15_Witness ==
    /\ pc = "exited"
    /\ \E i \in 1..Len(Emitted) :
           /\ PathLeavesRootOut(ThreadTree(Emitted[i].id), Emitted[i].id)
           /\ Len(Emitted[i].tweets) = 3
           /\ Emitted[i].tweets[1].id = Emitted[i].id
           /\ Emitted[i].tweets[2].is_reply # Emitted[i].root_is_reply
           /\ Emitted[i].tweets[2].created_at # Emitted[i].root_created_at

\* the roots of the merged forest whose tree is a mapping
UsableRoots ==
    {combined_roots[i][1] : i \in {j \in 1..Len(combined_roots) :
                                       combined_roots[j][2].tree.kind = "dict"}}

\* C16: once the run is through the merged forest, the threads printed are,
\* one each, those of the merged-forest roots whose tree is a mapping; no two
\* threads share an id, and a root whose complete-forest payload is not a
\* mapping has no thread, whatever the incomplete forest holds for it.
C16_OneThreadPerUsableRoot ==
    /\ \A i, j \in 1..Len(threads) : i # j => threads[i].id # threads[j].id
    /\ {threads[i].id : i \in 1..Len(threads)} \subseteq UsableRoots
    /\ \A r \in RootsOf(trees_data) :
           FirstTreeOf(trees_data, r).kind # "dict" =>
               \A i \in 1..Len(threads) : threads[i].id # r
    /\ RanThrough =>
           /\ {Emitted[i].id : i \in 1..Len(Emitted)} = UsableRoots
           /\ Len(Emitted) = Cardinality(UsableRoots)

\* a root whose complete-forest payload is not a mapping and whose
\* incomplete-forest tree is one has no thread, beside a root that has one
C16_Witness ==
    /\ RanThrough
    /\ Emitted # <<>>
    /\ \E r \in RootsOf(trees_data) \cap RootsOf(incomplete_data) :
           /\ FirstTreeOf(trees_data, r).kind # "dict"
           /\ FirstTreeOf(incomplete_data, r).kind = "dict"
           /\ \A i \in 1..Len(Emitted) : Emitted[i].id # r

----------------------------------------------------------------------------
(* The fallback's choice among the longest chains, checked under SpecPath *)

\* the position of the child the traversal ends up following from a node:
\* the last listed among the children that head a longest chain
LastDeepest(node) ==
    CHOOSE i \in 1..Len(ChildrenOf(node)) :
        /\ \A j \in 1..Len(ChildrenOf(node)) :
               ChainDepth(ChildrenOf(node)[j]) <= ChainDepth(ChildrenOf(node)[i])
        /\ \A j \in (i + 1)..Len(ChildrenOf(node)) :
               ChainDepth(ChildrenOf(node)[j]) < ChainDepth(ChildrenOf(node)[i])

\* the longest chain from a node that takes the later child wherever the
\* longest chains part
RECURSIVE LifoChain(_)
LifoChain(node) ==
    IF ChildrenOf(node) = <<>> THEN <<node>>
    ELSE <<node>> \o LifoChain(ChildrenOf(node)[LastDeepest(node)])

\* C17: without a usable precomputed path and over an acyclic children
\* relation, the path selected is the longest chain that follows, wherever the
\* longest chains part, the child listed later.
C17_FallbackTakesLaterChild ==
    (ps_pc = "done" /\ Candidates = <<>> /\ Acyclic) =>
        longest_path = LifoChain(ps_root)

\* the root has two different children that both head a longest chain, and
\* the path goes through the one listed later
C17_Witness ==
    /\ ps_pc = "done"
    /\ Candidates = <<>>
    /\ Acyclic
    /\ \E i, j \in 1..Len(ChildrenOf(ps_root)) :
           /\ i < j
           /\ ChildrenOf(ps_root)[i] # ChildrenOf(ps_root)[j]
           /\ ChainDepth(ChildrenOf(ps_root)[i]) = ChainDepth(ps_root) - 1
           /\ ChainDepth(ChildrenOf(ps_root)[j]) = ChainDepth(ps_root) - 1
           /\ longest_path[2] = ChildrenOf(ps_root)[j]

====
